---------------------------- MODULE Spec2Model ----------------------------
(***************************************************************************)
(* Proactive-delivery decision subsystem of the proactive-ai-prototype     *)
(* backend: TriggerService.should_trigger, the store operations that feed  *)
(* it (snooze, cancel_snooze, update_user_preferences, record_feedback),   *)
(* MessageQueue, and the recommendation engine (retrieval, collaborative   *)
(* filtering with its cache, ranking, get_recommendations and              *)
(* get_proactive_suggestion) over the DataStore, and TextSimilarity.       *)
(*                                                                         *)
(* Units.  Time is counted in whole hours since a reference midnight, so   *)
(* datetime.now().hour is now % 24.  Durations (retry_after) are counted   *)
(* in minutes.  Scores, priorities and receptivity are counted in          *)
(* thousandths (0.5 is 500).                                               *)
(***************************************************************************)
EXTENDS Integers, Sequences, FiniteSets

VARIABLES
    now,        \* the wall clock read by datetime.now()
    users,      \* DataStore._data["users"], keyed by user id
    feedback,   \* DataStore._data["feedback"], in file order
    queue,      \* MessageQueue._queue
    result,     \* the call that has just returned and its value (NoResult: none)
    enqueued,   \* how many entries MessageQueue.add has appended so far
    delivered,  \* the entries get_ready has returned so far, in order of return
    cleared,    \* the entries clear_user has removed so far
    candidates,     \* DataStore._data["candidates"], in file order
    user_activity,  \* DataStore._data["user_activity"], in file order
    cf_cache,       \* CollaborativeFilteringService._cf_cache
    num_documents,          \* TextSimilarity._num_documents
    document_frequencies    \* TextSimilarity._document_frequencies

vars == <<now, users, feedback, queue, result, enqueued, delivered, cleared,
          candidates, user_activity, cf_cache, num_documents, document_frequencies>>

(* The state of the recommendation engine and of the queue's history. *)
engine == <<candidates, user_activity, cf_cache>>
history == <<enqueued, delivered, cleared>>
index == <<num_documents, document_frequencies>>

---------------------------------------------------------------------------
(* Bounds of the model *)

MaxElapse == 1      \* hours the clock runs on after the process started
MaxFeedback == 2    \* feedback records in the log
MaxQueue == 3       \* entries in the message queue
MaxAdds == 4        \* calls of MessageQueue.add
MaxActivity == 1    \* records in the activity log
MaxRatings == 1     \* feedback records in the log the engine reads
MaxDocuments == 2   \* documents of a corpus given to build_index

(* Times the process may start at: 08:00, 17:00, 20:00 and 23:00 of day 3. *)
StartTimes == {80, 89, 92, 95}

(* Ages, in hours, of a feedback record found in the data file at start. *)
StoredAges == {3, 23, 71}

UserIds == {"u1", "u2"}
StoredUsers == {"u1"}
FeedbackUsers == {"u1"}
Windows == {<<9, 18>>, <<22, 6>>, <<9, 9>>}
Frequencies == {"rarely", "sometimes", "often", "daily"}
SnoozeHours == {1}
Scores == {400, 500, 900}
InterestSets == {{"python", "ml", "ai"}, {"python"}}
FeedbackCandidates == {"c1", "c2"}
FeedbackActions == {"started", "dismissed"}
Limits == {1, 2}
(* The actions of FeedbackAction and the candidate ids a feedback request  *)
(* may name: the four of the pool and one the pool does not hold.          *)
AllFeedbackActions ==
    {"started", "dismissed", "ignored", "replied", "dont_show_like_this"}
RequestedCandidates == {"c1", "c2", "c3", "c4", "c9"}
(* Texts, each the sequence of its words, the terms asked of compute_idf   *)
(* and the top_k of a search request (limit, at least 1).                  *)
Texts == {<<"python", "kafka">>, <<"kafka", "async", "kafka">>, <<"the", "ML">>, <<"python">>}
Terms == {"python", "kafka", "cooking"}
TopKs == {1, 2}
DocIds == <<"d1", "d2", "d3">>

---------------------------------------------------------------------------
(* Values *)

(* A timestamp as the store holds it: None, an ISO string without offset   *)
(* (what datetime.now().isoformat() writes), an ISO string with a UTC      *)
(* offset, or a string that is no ISO timestamp ("" included).             *)
NoStamp == [kind |-> "none", t |-> 0]
Naive(t) == [kind |-> "naive", t |-> t]
Aware(t) == [kind |-> "aware", t |-> t]
BadStamp == [kind |-> "bad", t |-> 0]

NoContext == [present |-> FALSE, current_activity |-> "browsing", receptivity_score |-> 500]
Context(a, r) == [present |-> TRUE, current_activity |-> a, receptivity_score |-> r]
Contexts ==
    {NoContext} \cup
    {Context("deep_work", 200), Context("browsing", 200), Context("browsing", 300)}
EngineContexts == {NoContext, Context("browsing", 300)}

(* The candidate pool: id, priority and category of each Candidate. *)
Candidates ==
    {[id |-> "c1", priority |-> "high", category |-> "work"],
     [id |-> "c2", priority |-> "low", category |-> "news"],
     [id |-> "c3", priority |-> "medium", category |-> "news"]}

(* ScoredCandidate: a candidate bound to a score. *)
Recommendations ==
    {r \in [candidate : Candidates, score : Scores] :
        \/ r.score = 400 /\ r.candidate.id = "c3"
        \/ r.score = 500 /\ r.candidate.id \in {"c1", "c2"}
        \/ r.score = 900 /\ r.candidate.id \in {"c1", "c3"}}

(* User(...) with the dataclass defaults. *)
DefaultUser ==
    [topics_of_interest |-> {}, frequency |-> "sometimes",
     preferred_hour_start |-> 9, preferred_hour_end |-> 18,
     paused_until |-> NoStamp]

NoResult == [op |-> "none"]

Max(S) == CHOOSE x \in S : \A y \in S : y <= x

---------------------------------------------------------------------------
(* datetime.fromisoformat, as should_trigger uses it: a string that is no  *)
(* ISO timestamp raises ValueError; a string with an offset parses to an   *)
(* offset-aware datetime, which cannot be compared with or subtracted from *)
(* the offset-naive datetime.now() (TypeError).                            *)
FromIsoformat(s) ==
    [ok |-> s.kind \in {"naive", "aware"}, aware |-> s.kind = "aware", t |-> s.t]

(* datetime.isoformat of a datetime.now() value. *)
Isoformat(t) == Naive(t)

(* datetime.now().hour *)
HourOf(t) == t % 24

---------------------------------------------------------------------------
(* TriggerService *)

ScoreThreshold == 500
ReceptivityThreshold == 300
DefaultPriority == 500
DefaultInterval == 24

(* MIN_INTERVALS.get(user.frequency, 24) *)
MinInterval(frequency) ==
    CASE frequency = "rarely" -> 72
      [] frequency = "sometimes" -> 24
      [] frequency = "often" -> 4
      [] OTHER -> DefaultInterval

(* TriggerResult.  retry_after is None when has_retry is FALSE.  The reads *)
(* of the clock that the evaluation made are kept with it: t_pause (the    *)
(* pause test), t_retry (the pause's retry_after), t_hour (current_hour),  *)
(* t_freq (hours_since_last), t_prio (_compute_priority); -1: not read.    *)
TriggerResult(decision, reason, has_retry, retry_after, priority) ==
    [decision |-> decision, reason |-> reason, has_retry |-> has_retry,
     retry_after |-> retry_after, priority |-> priority,
     t_pause |-> -1, t_retry |-> -1, t_hour |-> -1, t_freq |-> -1, t_prio |-> -1]

(* An exception that leaves should_trigger instead of a TriggerResult. *)
Raised(exception) == TriggerResult("raised", exception, FALSE, 0, 0)

(* is_paused with the comparison taken inclusively: still paused at the    *)
(* very time the pause ends.                                               *)
is_paused_through_the_end(user, t) ==
    LET pause_end == FromIsoformat(user.paused_until)
    IN  /\ user.paused_until.kind # "none"
        /\ pause_end.ok
        /\ ~pause_end.aware
        /\ t <= pause_end.t

(* The pause test: paused_until is set, parses, and lies after the clock.  *)
(* ValueError and TypeError (an offset-aware pause_end) are swallowed.     *)
is_paused(user, t) ==
    LET pause_end == FromIsoformat(user.paused_until)
    IN  /\ user.paused_until.kind # "none"
        /\ pause_end.ok
        /\ ~pause_end.aware
        /\ t < pause_end.t

(* in_preferred_hours with the end of the window counted in. *)
in_preferred_hours_closed(user, current_hour) ==
    /\ user.preferred_hour_start <= current_hour
    /\ current_hour <= user.preferred_hour_end

(* user.preferred_hour_start <= current_hour < user.preferred_hour_end *)
in_preferred_hours(user, current_hour) ==
    /\ user.preferred_hour_start <= current_hour
    /\ current_hour < user.preferred_hour_end

(* hours_until_window without the modulo. *)
hours_until_window_no_wrap(user, current_hour) ==
    user.preferred_hour_start - current_hour

hours_until_window(user, current_hour) ==
    (user.preferred_hour_start - current_hour) % 24

(* The key list.sort compares created_at strings by: "" sorts first, an    *)
(* ISO string sorts by its time, and the same time with an offset after it.*)
created_at_key(f) ==
    CASE f.created_at.kind = "naive" -> 2 * f.created_at.t
      [] f.created_at.kind = "aware" -> 2 * f.created_at.t + 1
      [] OTHER -> -1

(* list.sort(key=created_at, reverse=True): stable, newest first. *)
RECURSIVE sort_newest_first(_)
sort_newest_first(s) ==
    IF s = <<>> THEN <<>>
    ELSE LET x == Head(s)
             rest == sort_newest_first(Tail(s))
             ahead == SelectSeq(rest, LAMBDA y : created_at_key(y) > created_at_key(x))
             behind == SelectSeq(rest, LAMBDA y : created_at_key(y) <= created_at_key(x))
         IN  ahead \o <<x>> \o behind

(* user_feedback without the filter on user_id. *)
user_feedback_of_anyone(log, user_id) == log

user_feedback(log, user_id) == SelectSeq(log, LAMBDA f : f.user_id = user_id)

(* _get_last_message_time: ok is FALSE for None. *)
get_last_message_time(log, user_id) ==
    LET mine == sort_newest_first(user_feedback(log, user_id))
    IN  IF mine = <<>> THEN FromIsoformat(NoStamp)
        ELSE FromIsoformat(mine[1].created_at)

(* _compute_priority giving back the score as it is. *)
compute_priority_unboosted(recommendation, t) == recommendation.score

(* TriggerService._compute_priority *)
compute_priority(recommendation, t) ==
    LET base == recommendation.score
        boosted ==
            CASE recommendation.candidate.priority = "high" -> (base * 13) \div 10
              [] recommendation.candidate.priority = "low" -> (base * 8) \div 10
              [] OTHER -> base
        worked ==
            IF 9 <= HourOf(t) /\ HourOf(t) <= 17
               /\ recommendation.candidate.category = "work"
            THEN (boosted * 12) \div 10
            ELSE boosted
    IN  IF worked < 1000 THEN worked ELSE 1000

(* check_context with the receptivity tested before deep_work. *)
check_context_receptivity_first(recommendation, context, clk) ==
    LET priority == compute_priority(recommendation, clk[5])
        r == IF context.present /\ context.receptivity_score < ReceptivityThreshold
             THEN TriggerResult("wait", "low_receptivity", TRUE, 30, priority)
             ELSE IF context.present /\ context.current_activity = "deep_work"
             THEN TriggerResult("queue", "deep_work", TRUE, 60, priority)
             ELSE TriggerResult("trigger", "all_met", FALSE, 0, priority)
    IN  [r EXCEPT !.t_prio = clk[5]]

(* Steps 5 to 7 of should_trigger: priority, then the context. *)
check_context(recommendation, context, clk) ==
    LET priority == compute_priority(recommendation, clk[5])
        r == IF context.present /\ context.current_activity = "deep_work"
             THEN TriggerResult("queue", "deep_work", TRUE, 60, priority)
             ELSE IF context.present /\ context.receptivity_score < ReceptivityThreshold
             THEN TriggerResult("wait", "low_receptivity", TRUE, 30, priority)
             ELSE TriggerResult("trigger", "all_met", FALSE, 0, priority)
    IN  [r EXCEPT !.t_prio = clk[5]]

(* check_score with a score of exactly the threshold skipped too. *)
check_score_inclusive(recommendation, context, clk) ==
    IF recommendation.score <= ScoreThreshold
    THEN TriggerResult("skip", "low_score", FALSE, 0, recommendation.score)
    ELSE check_context(recommendation, context, clk)

(* Step 4: the quality threshold. *)
check_score(recommendation, context, clk) ==
    IF recommendation.score < ScoreThreshold
    THEN TriggerResult("skip", "low_score", FALSE, 0, recommendation.score)
    ELSE check_context(recommendation, context, clk)

(* Step 3: the frequency constraint. *)
check_frequency(log, user, user_id, recommendation, context, clk) ==
    LET min_interval == MinInterval(user.frequency)
        last_message_time == get_last_message_time(log, user_id)
        hours_since_last == clk[4] - last_message_time.t
    IN  IF ~last_message_time.ok
        THEN check_score(recommendation, context, clk)
        ELSE IF last_message_time.aware
        THEN [Raised("TypeError") EXCEPT !.t_freq = clk[4]]
        ELSE IF hours_since_last < min_interval
        THEN [TriggerResult("wait", "too_soon", TRUE,
                            (min_interval - hours_since_last) * 60, DefaultPriority)
                EXCEPT !.t_freq = clk[4]]
        ELSE [check_score(recommendation, context, clk) EXCEPT !.t_freq = clk[4]]

(* Step 2: the preferred-hour window. *)
check_window(log, user, user_id, recommendation, context, clk) ==
    LET current_hour == HourOf(clk[3])
        r == IF ~in_preferred_hours(user, current_hour)
             THEN TriggerResult("queue", "outside_hours", TRUE,
                                hours_until_window(user, current_hour) * 60,
                                DefaultPriority)
             ELSE check_frequency(log, user, user_id, recommendation, context, clk)
    IN  [r EXCEPT !.t_hour = clk[3]]

(* should_trigger with the window tested before the pause. *)
should_trigger_window_first(log, user, user_id, recommendation, context, clk) ==
    LET pause_end == FromIsoformat(user.paused_until)
        current_hour == HourOf(clk[3])
    IN  IF ~in_preferred_hours(user, current_hour)
        THEN [TriggerResult("queue", "outside_hours", TRUE,
                            hours_until_window(user, current_hour) * 60,
                            DefaultPriority)
                EXCEPT !.t_hour = clk[3]]
        ELSE IF is_paused(user, clk[1])
        THEN [TriggerResult("wait", "paused", TRUE,
                            (pause_end.t - clk[2]) * 60, DefaultPriority)
                EXCEPT !.t_pause = clk[1], !.t_retry = clk[2], !.t_hour = clk[3]]
        ELSE [check_frequency(log, user, user_id, recommendation, context, clk)
                EXCEPT !.t_pause = IF pause_end.ok THEN clk[1] ELSE -1,
                       !.t_hour = clk[3]]

(* should_trigger, step 1 first: the pause. *)
should_trigger(log, user, user_id, recommendation, context, clk) ==
    LET pause_end == FromIsoformat(user.paused_until)
    IN  IF is_paused(user, clk[1])
        THEN [TriggerResult("wait", "paused", TRUE,
                            (pause_end.t - clk[2]) * 60, DefaultPriority)
                EXCEPT !.t_pause = clk[1], !.t_retry = clk[2]]
        ELSE [check_window(log, user, user_id, recommendation, context, clk)
                EXCEPT !.t_pause = IF pause_end.ok THEN clk[1] ELSE -1]

---------------------------------------------------------------------------
(* MessageQueue *)

QueuePriorities == {500, 900}
QueueDelays == {0, 1}
QueuedRecommendations ==
    {r \in Recommendations : r.score = 900 /\ r.candidate.id \in {"c1", "c2"}}

(* The sort key of add: (deliver_after, -priority), compared as tuples. *)
queue_key_less(a, b) ==
    \/ a.deliver_after < b.deliver_after
    \/ /\ a.deliver_after = b.deliver_after
       /\ -a.priority < -b.priority

(* list.sort(key=...): stable, ascending. *)
RECURSIVE sort_queue(_)
sort_queue(s) ==
    IF s = <<>> THEN <<>>
    ELSE LET x == Head(s)
             rest == sort_queue(Tail(s))
             ahead == SelectSeq(rest, LAMBDA y : queue_key_less(y, x))
             behind == SelectSeq(rest, LAMBDA y : ~queue_key_less(y, x))
         IN  ahead \o <<x>> \o behind

(* add without the sort. *)
queue_add_unsorted(q, entry, user_id, recommendation, deliver_after, priority) ==
    Append(q, [entry |-> entry, user_id |-> user_id, recommendation |-> recommendation,
               deliver_after |-> deliver_after, priority |-> priority])

(* MessageQueue.add: append, then sort.  entry is the identity of the      *)
(* appended tuple: the ordinal of the add call that made it.               *)
queue_add(q, entry, user_id, recommendation, deliver_after, priority) ==
    sort_queue(Append(q, [entry |-> entry, user_id |-> user_id,
                          recommendation |-> recommendation,
                          deliver_after |-> deliver_after, priority |-> priority]))

(* The entries due before t: those due exactly at t are not returned. *)
due_of_before(q, t) == SelectSeq(q, LAMBDA e : e.deliver_after < t)

(* MessageQueue.get_ready: the entries due at t, as (user_id, rec) pairs,  *)
(* and the entries that stay.                                              *)
due_of(q, t) == SelectSeq(q, LAMBDA e : e.deliver_after <= t)

ready_of(q, t) ==
    LET due == due_of(q, t)
    IN  [i \in 1..Len(due) |->
            [user_id |-> due[i].user_id, recommendation |-> due[i].recommendation]]

(* The entries that stay, with those due exactly now kept as well. *)
remaining_of_and_due_now(q, t) == SelectSeq(q, LAMBDA e : ~(e.deliver_after < t))

remaining_of(q, t) == SelectSeq(q, LAMBDA e : ~(e.deliver_after <= t))

(* clear_user emptying the whole queue. *)
without_anyone(q, user_id) == <<>>

(* MessageQueue.clear_user: the entries that stay. *)
without_user(q, user_id) == SelectSeq(q, LAMBDA e : e.user_id # user_id)

(* MessageQueue.get_user_queue *)
get_user_queue(q, user_id) ==
    LET mine == SelectSeq(q, LAMBDA e : e.user_id = user_id)
    IN  [i \in 1..Len(mine) |-> mine[i].recommendation]

(* The identities of the tuples of a list, in list order. *)
entries_of(q) == [i \in 1..Len(q) |-> q[i].entry]

Range(s) == {s[i] : i \in 1..Len(s)}

---------------------------------------------------------------------------
(* DataStore and the recommendation engine.  The engine's scores are       *)
(* counted in ten-thousandths (1.0 is One) and a division rounds down;     *)
(* engagement_score is counted in tenths (1.0 is 10).                      *)

One == 10000
InterestWeight == 3500
ActivityWeight == 2500
CFWeight == 1500
EngagementWeight == 1000
RecencyWeight == 1000
TimingWeight == 500
PopularityWeight == 3000
QualityThreshold == 5000

min(a, b) == IF a <= b THEN a ELSE b
max(a, b) == IF a >= b THEN a ELSE b

RECURSIVE sum(_)
sum(s) == IF s = <<>> THEN 0 ELSE Head(s) + sum(Tail(s))

(* s[:n] for n >= 0 *)
Take(s, n) == SubSeq(s, 1, min(n, Len(s)))

(* The one element of a singleton set: Only({f(v) : v \in {e}}) is f(e)   *)
(* with e evaluated once.                                                  *)
Only(S) == CHOOSE x \in S : TRUE

(* list.sort(key=..., reverse=True) on a list of [key, item] pairs:        *)
(* descending by key, items of equal key in their previous order.          *)
RECURSIVE sort_reverse(_)
sort_reverse(s) ==
    IF s = <<>> THEN <<>>
    ELSE Only({SelectSeq(rest, LAMBDA y : y.key > Head(s).key)
                 \o <<Head(s)>>
                 \o SelectSeq(rest, LAMBDA y : ~(y.key > Head(s).key)) :
               rest \in {sort_reverse(Tail(s))}})

(* The list s sorted that way by the keys given for its positions. *)
sorted_reverse(s, keys) ==
    Only({[i \in 1..Len(r) |-> r[i].item] :
          r \in {sort_reverse([i \in 1..Len(s) |-> [key |-> keys[i], item |-> s[i]]])}})

(* str.lower() of a word of a search query. *)
lower(w) ==
    CASE w = "ML" -> "ml"
      [] w = "AI" -> "ai"
      [] OTHER -> w

(* DataStore.get_all_candidates *)
get_all_candidates == candidates

(* DataStore.get_candidates_by_keywords *)
get_candidates_by_keywords(keywords, limit) ==
    LET matching == SelectSeq(candidates, LAMBDA c : c.keywords \cap keywords # {})
    IN  Take(sorted_reverse(matching, [i \in 1..Len(matching) |->
                                          matching[i].engagement_score]), limit)

(* score_deltas.get(feedback.action, 0), in tenths *)
score_deltas(action) ==
    CASE action = "started" -> 10
      [] action = "replied" -> 5
      [] action = "dismissed" -> -3
      [] action = "ignored" -> -1
      [] action = "dont_show_like_this" -> -10
      [] OTHER -> 0

(* update_candidate_score adding the delta to every candidate. *)
update_candidate_score_of_all(pool, candidate_id, score_delta) ==
    [i \in 1..Len(pool) |-> [pool[i] EXCEPT !.engagement_score = @ + score_delta]]

(* DataStore.update_candidate_score: the first candidate of that id. *)
update_candidate_score(pool, candidate_id, score_delta) ==
    LET hits == {i \in 1..Len(pool) : pool[i].id = candidate_id}
    IN  IF hits = {} THEN pool
        ELSE LET i == CHOOSE h \in hits : \A k \in hits : h <= k
             IN  [pool EXCEPT ![i].engagement_score = @ + score_delta]

(* DataStore.get_user_activity: the user's activities, newest first. *)
get_user_activity(user_id, limit) ==
    LET mine == SelectSeq(user_activity, LAMBDA a : a.user_id = user_id)
    IN  Take(sorted_reverse(mine, [i \in 1..Len(mine) |-> mine[i].timestamp.t]), limit)

(* The keywords an activity contributes: its keywords and the lower-cased  *)
(* words of its query.                                                     *)
keywords_of(activities) ==
    UNION {activities[i].keywords \cup
             {lower(activities[i].query[j]) : j \in 1..Len(activities[i].query)} :
           i \in 1..Len(activities)}

(* DataStore.get_user_keywords *)
get_user_keywords(user_id) == keywords_of(get_user_activity(user_id, 20))

(* Nothing counted as shown. *)
get_shown_candidates_none(user_id) == {}

(* DataStore.get_shown_candidates, as the set the callers make of it. *)
get_shown_candidates(user_id) ==
    {feedback[i].candidate_id : i \in {k \in 1..Len(feedback) : feedback[k].user_id = user_id}}

positive_actions == {"started", "replied"}

(* DataStore.find_similar_users: user id -> Jaccard similarity, for the    *)
(* users of positive similarity (fewer than the limit of 10).              *)
find_similar_users(user_id) ==
    IF user_id \notin DOMAIN users \/ users[user_id].topics_of_interest = {}
    THEN <<>>
    ELSE LET target_interests == users[user_id].topics_of_interest
             similarity(u) ==
                 (Cardinality(target_interests \cap users[u].topics_of_interest) * One)
                    \div Cardinality(target_interests \cup users[u].topics_of_interest)
             others == {u \in DOMAIN users \ {user_id} :
                           /\ users[u].topics_of_interest # {}
                           /\ similarity(u) > 0}
         IN  [u \in others |-> similarity(u)]

(* DataStore.get_candidates_engaged_by_similar_users: candidate id ->      *)
(* weighted score (fewer candidates than the limit).                       *)
get_candidates_engaged_by_similar_users(user_id) ==
    LET similar_users == find_similar_users(user_id)
        seen_by_target == get_shown_candidates(user_id)
        user_feedback_of(u) ==
            SelectSeq(feedback, LAMBDA f : /\ f.user_id = u
                                           /\ f.action \in positive_actions
                                           /\ f.candidate_id \notin seen_by_target)
        engaged == UNION {{f.candidate_id : f \in Range(user_feedback_of(u))} :
                          u \in DOMAIN similar_users}
        score(f) ==
            (similar_users[f.user_id] * (IF f.action = "started" THEN 10 ELSE 5)) \div 10
        total(c) ==
            LET fs == SelectSeq(feedback,
                                LAMBDA f : /\ f.user_id \in DOMAIN similar_users
                                           /\ f.action \in positive_actions
                                           /\ f.candidate_id \notin seen_by_target
                                           /\ f.candidate_id = c)
            IN  sum([i \in 1..Len(fs) |-> score(fs[i])])
    IN  [c \in engaged |-> total(c)]

(* DataStore.get_popular_candidates: candidate id -> count of positive     *)
(* feedback (fewer candidates than the limit).                             *)
get_popular_candidates ==
    LET positive == SelectSeq(feedback, LAMBDA f : f.action \in positive_actions)
        ids == {f.candidate_id : f \in Range(positive)}
    IN  [c \in ids |-> Len(SelectSeq(positive, LAMBDA f : f.candidate_id = c))]

(* CollaborativeFilteringService.get_cf_scores on a cache miss. *)
compute_cf_scores(user_id) ==
    LET similar_user_candidates == get_candidates_engaged_by_similar_users(user_id)
        popular == get_popular_candidates
        max_score == Max({similar_user_candidates[c] : c \in DOMAIN similar_user_candidates})
        max_pop == Max({popular[c] : c \in DOMAIN popular})
        cf(c) == IF c \in DOMAIN similar_user_candidates
                 THEN IF max_score > 0
                      THEN (similar_user_candidates[c] * One) \div max_score
                      ELSE 0
                 ELSE 0
        pop_score(c) == IF c \in DOMAIN popular
                        THEN IF max_pop > 0
                             THEN (((popular[c] * One) \div max_pop) * PopularityWeight) \div One
                             ELSE 0
                        ELSE 0
    IN  [c \in DOMAIN similar_user_candidates \cup DOMAIN popular |-> cf(c) + pop_score(c)]

(* CollaborativeFilteringService.get_cf_scores: the mapping returned and   *)
(* the cache afterwards.                                                   *)
get_cf_scores(cache, user_id) ==
    IF user_id \in DOMAIN cache
    THEN [value |-> cache[user_id], cache |-> cache]
    ELSE Only({[value |-> cf_scores,
                cache |-> [u \in DOMAIN cache \cup {user_id} |->
                              IF u = user_id THEN cf_scores ELSE cache[u]]] :
               cf_scores \in {compute_cf_scores(user_id)}})

(* CollaborativeFilteringService.clear_cache.  The argument is None        *)
(* (given FALSE) or a string; "if user_id" is false for None and for "".   *)
cache_cleared(cache, user_id) ==
    IF user_id.given /\ user_id.id # ""
    THEN [u \in DOMAIN cache \ {user_id.id} |-> cache[u]]
    ELSE <<>>

(* Signal(type, description, weight): its type and weight. *)
Signal(type, weight) == [type |-> type, weight |-> weight]

ScoredCandidate(candidate, score, signals) ==
    [candidate |-> candidate, score |-> score, signals |-> signals]

(* RankingService._compute_score: the components of the score and what     *)
(* decides whether each is counted.                                        *)
score_parts(candidate, user, activities, context, cf_scores) ==
    LET interest_matches == Cardinality(candidate.keywords \cap user.topics_of_interest)
        interest_score == (min((interest_matches * One) \div 3, One) * InterestWeight) \div One
        activity_keywords == keywords_of(Take(activities, 10))
        activity_matches == Cardinality(candidate.keywords \cap activity_keywords)
        activity_score == (min((activity_matches * One) \div 5, One) * ActivityWeight) \div One
        has_cf == cf_scores # <<>> /\ candidate.id \in DOMAIN cf_scores
        cf_score == IF has_cf THEN (cf_scores[candidate.id] * CFWeight) \div One ELSE 0
        engagement_score ==
            (min((candidate.engagement_score * One) \div 50, One) * EngagementWeight) \div One
        created == FromIsoformat(candidate.created_at)
        days_old == (now - created.t) \div 24
        recency_score == (max(0, One - (days_old * One) \div 30) * RecencyWeight) \div One
        timing_score == (context.receptivity_score * (One \div 1000) * TimingWeight) \div One
    IN  [interest_matches |-> interest_matches, interest_score |-> interest_score,
         activity_matches |-> activity_matches, activity_score |-> activity_score,
         has_cf |-> has_cf, cf_score |-> cf_score,
         engagement_score |-> engagement_score,
         has_recency |-> created.ok, days_old |-> days_old,
         recency_score |-> recency_score,
         has_timing |-> context.present, timing_score |-> timing_score]

(* RankingService._compute_score: the normalized score. *)
compute_score(candidate, user, activities, context, cf_scores) ==
    Only({min(sum((IF part.interest_matches > 0 THEN <<part.interest_score>> ELSE <<>>)
                  \o (IF part.activity_matches > 0 THEN <<part.activity_score>> ELSE <<>>)
                  \o (IF part.has_cf THEN <<part.cf_score>> ELSE <<>>)
                  \o <<part.engagement_score>>
                  \o (IF part.has_recency THEN <<part.recency_score>> ELSE <<>>)
                  \o (IF part.has_timing THEN <<part.timing_score>> ELSE <<>>)),
              One) :
          part \in {score_parts(candidate, user, activities, context, cf_scores)}})

(* RankingService._compute_score: the signals, in the order appended. *)
compute_signals(candidate, user, activities, context, cf_scores) ==
    Only({(IF part.interest_matches > 0
           THEN <<Signal("match", part.interest_score)>> ELSE <<>>)
          \o (IF part.activity_matches > 0 /\ activities # <<>>
              THEN IF activities[1].activity_type = "article_read"
                   THEN <<Signal("reading_history", part.activity_score)>>
                   ELSE IF activities[1].activity_type = "search"
                   THEN <<Signal("search_history", part.activity_score)>>
                   ELSE <<>>
              ELSE <<>>)
          \o (IF part.has_cf /\ part.cf_score > 500
              THEN <<Signal("similar_users", part.cf_score)>> ELSE <<>>)
          \o (IF part.has_recency /\ part.days_old < 3
              THEN <<Signal("trending", part.recency_score)>> ELSE <<>>)
          \o (IF part.has_timing /\ context.receptivity_score > 700
              THEN <<Signal("timing", part.timing_score)>> ELSE <<>>) :
          part \in {score_parts(candidate, user, activities, context, cf_scores)}})

(* The penalty taken from every item, the first of its category too. *)
penalty_on_every_item(score, category, seen_categories) == (score * 8) \div 10

(* RankingService._apply_diversity, one item of the walk: item.score *= 0.8 *)
(* when the category was seen.                                             *)
penalty(score, category, seen_categories) ==
    IF category \in seen_categories THEN (score * 8) \div 10 ELSE score

(* RankingService._apply_diversity, the walk over the list. *)
RECURSIVE penalized(_, _)
penalized(scored, seen_categories) ==
    IF scored = <<>> THEN <<>>
    ELSE LET item == Head(scored)
             category == item.candidate.category
             walked == [item EXCEPT !.score = penalty(@, category, seen_categories)]
         IN  <<walked>> \o penalized(Tail(scored), seen_categories \cup {category})

(* The diversity pass without the sort that ends it. *)
apply_diversity_without_sort(scored) == penalized(scored, {})

(* RankingService._apply_diversity *)
apply_diversity(scored) ==
    Only({sorted_reverse(result_list,
                         [i \in 1..Len(result_list) |-> result_list[i].score]) :
          result_list \in {penalized(scored, {})}})

(* RankingService.rank_candidates up to the first sort: the list the       *)
(* diversity pass is given.                                                *)
scored_candidates(candidate_list, user, user_id, context, cf_scores) ==
    Only({sorted_reverse(scored, [i \in 1..Len(scored) |-> scored[i].score]) :
          scored \in
            {[i \in 1..Len(candidate_list) |->
                ScoredCandidate(candidate_list[i],
                                compute_score(candidate_list[i], user, user_activities,
                                              context, cf_scores),
                                compute_signals(candidate_list[i], user, user_activities,
                                                context, cf_scores))] :
             user_activities \in {get_user_activity(user_id, 20)}}})

(* RankingService.rank_candidates: the ranked list, the list before the    *)
(* diversity pass, and the CF cache afterwards.                            *)
rank_candidates(candidate_list, user, user_id, context) ==
    Only(UNION {{[value |-> apply_diversity(scored), scored |-> scored,
                  cache |-> cf.cache] :
                 scored \in {scored_candidates(candidate_list, user, user_id,
                                               context, cf.value)}} :
                cf \in {get_cf_scores(cf_cache, user_id)}})

(* RetrievalService.retrieve_candidates *)
retrieve_candidates(user, user_id, limit) ==
    LET keywords == user.topics_of_interest \cup get_user_keywords(user_id)
        matching == get_candidates_by_keywords(keywords, limit * 2)
        shown_ids == get_shown_candidates(user_id)
    IN  Take(SelectSeq(matching, LAMBDA c : c.id \notin shown_ids), limit)

(* get_recommendations ranking whatever retrieval gave. *)
candidates_or_nothing(retrieved, limit) == retrieved

(* RecommendationEngine.get_recommendations: the candidates to rank, the   *)
(* first 3 * limit of the pool when retrieval gave none.                   *)
candidates_or_fallback(retrieved, limit) ==
    IF retrieved = <<>> THEN Take(get_all_candidates, limit * 3) ELSE retrieved

(* RecommendationEngine.get_recommendations: the list returned, what      *)
(* retrieval gave, the candidates that were ranked and their ranking, and  *)
(* the CF cache afterwards.                                                *)
get_recommendations(user_id, limit, context) ==
    LET user == IF user_id \in DOMAIN users
                THEN users[user_id]
                ELSE [DefaultUser EXCEPT !.topics_of_interest = {"general"}]
    IN  Only(UNION {UNION {{[value |-> Take(ranked.value, limit),
                             retrieved |-> retrieved,
                             candidate_list |-> candidate_list,
                             ranked |-> ranked.value,
                             scored |-> ranked.scored, cache |-> ranked.cache] :
                            ranked \in {rank_candidates(candidate_list, user,
                                                        user_id, context)}} :
                           candidate_list \in {candidates_or_fallback(retrieved, limit)}} :
                    retrieved \in {retrieve_candidates(user, user_id, limit * 5)}})

(* RecommendationEngine.get_proactive_suggestion: found FALSE is None. *)
get_proactive_suggestion(user_id, context) ==
    Only({IF recommendations.value = <<>>
          THEN [found |-> FALSE, recommendations |-> recommendations]
          ELSE IF recommendations.value[1].score < QualityThreshold
          THEN [found |-> FALSE, recommendations |-> recommendations]
          ELSE [found |-> TRUE, top |-> recommendations.value[1],
                recommendations |-> recommendations] :
          recommendations \in {get_recommendations(user_id, 1, context)}})

---------------------------------------------------------------------------
(* TextSimilarity.  A text is the sequence of its words.  tf, idf and the  *)
(* entries of a TF-IDF vector are counted in hundredths, a similarity in   *)
(* thousandths, and a division rounds down.                                *)

(* What a call gives: a value, or the exception that leaves it. *)
Returned(value) == [ok |-> TRUE, value |-> value]
Raising(exception) == [ok |-> FALSE, exception |-> exception]

(* Those of TextSimilarity._stopwords that the texts can hold. *)
stopwords == {"a", "an", "the", "and", "or"}

(* len(w) of a lower-cased word *)
len(w) ==
    CASE w = "a" -> 1
      [] w \in {"an", "or", "ml", "ai"} -> 2
      [] w \in {"the", "and"} -> 3
      [] w \in {"kafka", "async"} -> 5
      [] w = "python" -> 6
      [] OTHER -> 7

(* TextSimilarity.tokenize: lower-cased words that are no stopwords and    *)
(* longer than two letters.                                                *)
tokenize(text) ==
    SelectSeq([i \in 1..Len(text) |-> lower(text[i])],
              LAMBDA w : w \notin stopwords /\ len(w) > 2)

(* TextSimilarity.compute_tf: term -> 0.5 + 0.5 * (freq / max_freq) *)
compute_tf(tokens) ==
    IF tokens = <<>> THEN <<>>
    ELSE LET counts == [t \in Range(tokens) |-> Len(SelectSeq(tokens, LAMBDA w : w = t))]
             max_freq == Max({counts[t] : t \in DOMAIN counts})
         IN  [term \in DOMAIN counts |-> 50 + (50 * counts[term]) \div max_freq]

(* math.log(n) for a whole n from 1 to 8, in hundredths *)
ln(n) ==
    CASE n = 1 -> 0
      [] n = 2 -> 69
      [] n = 3 -> 110
      [] n = 4 -> 139
      [] n = 5 -> 161
      [] n = 6 -> 179
      [] n = 7 -> 195
      [] n = 8 -> 208

(* TextSimilarity.compute_idf: math.log(N / (1 + df)); math.log(0.0)       *)
(* raises ValueError (math domain error).                                  *)
compute_idf(term) ==
    LET df == IF term \in DOMAIN document_frequencies
              THEN document_frequencies[term] ELSE 0
    IN  IF num_documents = 0
        THEN Raising("ValueError")
        ELSE Returned(ln(num_documents) - ln(1 + df))

(* TextSimilarity.build_index: _num_documents and _document_frequencies    *)
(* afterwards.                                                             *)
index_of(documents) ==
    [num_documents |-> Len(documents),
     document_frequencies |->
        [token \in UNION {Range(tokenize(documents[i])) : i \in 1..Len(documents)} |->
            Cardinality({i \in 1..Len(documents) : token \in Range(tokenize(documents[i]))})]]

(* TextSimilarity.compute_tfidf_vector: no term, no call of compute_idf. *)
compute_tfidf_vector(text) ==
    LET tf == compute_tf(tokenize(text))
    IN  IF \E term \in DOMAIN tf : ~compute_idf(term).ok
        THEN Raising("ValueError")
        ELSE Returned([term \in DOMAIN tf |-> (tf[term] * compute_idf(term).value) \div 100])

(* sum(...) over the values of a mapping *)
RECURSIVE sum_of(_)
sum_of(f) ==
    IF DOMAIN f = {} THEN 0
    ELSE LET t == CHOOSE x \in DOMAIN f : TRUE
         IN  f[t] + sum_of([u \in DOMAIN f \ {t} |-> f[u]])

(* math.sqrt, rounded down: Newton's iteration from above. *)
RECURSIVE sqrt_from(_, _)
sqrt_from(x, r) ==
    IF r * r <= x THEN r ELSE sqrt_from(x, (r + x \div r) \div 2)

sqrt(x) == IF x = 0 THEN 0 ELSE sqrt_from(x, min(x, 46340))

(* TextSimilarity.cosine_similarity.  The magnitudes are counted in        *)
(* ten-thousandths.                                                        *)
cosine_similarity(vec1, vec2) ==
    LET common_terms == DOMAIN vec1 \cap DOMAIN vec2
        dot_product == sum_of([t \in common_terms |-> vec1[t] * vec2[t]])
        mag1 == sqrt(sum_of([t \in DOMAIN vec1 |-> vec1[t] * vec1[t]]) * 10000)
        mag2 == sqrt(sum_of([t \in DOMAIN vec2 |-> vec2[t] * vec2[t]]) * 10000)
    IN  IF DOMAIN vec1 = {} \/ DOMAIN vec2 = {} THEN 0
        ELSE IF common_terms = {} THEN 0
        ELSE IF mag1 = 0 \/ mag2 = 0 THEN 0
        ELSE (dot_product * 1000) \div ((mag1 * mag2) \div 10000)

(* TextSimilarity.similarity *)
similarity(text1, text2) ==
    LET vec1 == compute_tfidf_vector(text1)
        vec2 == compute_tfidf_vector(text2)
    IN  IF ~vec1.ok THEN vec1
        ELSE IF ~vec2.ok THEN vec2
        ELSE Returned(cosine_similarity(vec1.value, vec2.value))

(* The first top_k of the scores in the order they were appended. *)
top_k_unsorted(scores, top_k) == Take(scores, top_k)

(* TextSimilarity.find_similar, its end: scores.sort(key=score,            *)
(* reverse=True) and scores[:top_k].                                       *)
top_k_sorted(scores, top_k) ==
    Take(sorted_reverse(scores, [i \in 1..Len(scores) |-> scores[i].score]), top_k)

(* TextSimilarity.find_similar over (id, text) pairs *)
find_similar(query, documents, top_k) ==
    LET query_vec == compute_tfidf_vector(query)
        doc_vec == [i \in 1..Len(documents) |-> compute_tfidf_vector(documents[i].text)]
    IN  IF ~query_vec.ok THEN query_vec
        ELSE IF \E i \in 1..Len(documents) : ~doc_vec[i].ok THEN Raising("ValueError")
        ELSE Only({Returned(top_k_sorted(SelectSeq(all, LAMBDA x : x.score > 0), top_k)) :
                   all \in {[i \in 1..Len(documents) |->
                               [id |-> documents[i].id,
                                score |-> cosine_similarity(query_vec.value,
                                                            doc_vec[i].value)]]}})

---------------------------------------------------------------------------
(* The state after construction *)

FeedbackRecord(user_id, candidate_id, action, created_at) ==
    [user_id |-> user_id, candidate_id |-> candidate_id, action |-> action,
     created_at |-> created_at]

(* Candidate(...) as the data file holds it. *)
Candidate(id, category, keywords, engagement_score, created_at, priority) ==
    [id |-> id, category |-> category, keywords |-> keywords,
     engagement_score |-> engagement_score, created_at |-> created_at,
     priority |-> priority]

(* The candidate pool of the data file at time t: c1 and c4 without a      *)
(* created_at (""), c2 two days old, c3 forty days old with an engagement  *)
(* score of 1.0.                                                           *)
StoredCandidates(t) ==
    <<Candidate("c1", "work", {"python", "ml", "ai"}, 0, BadStamp, "high"),
      Candidate("c2", "news", {"python"}, 0, Isoformat(t - 48), "low"),
      Candidate("c3", "work", {"ml", "ai"}, 10, Isoformat(t - 960), "medium"),
      Candidate("c4", "work", {"cooking", "python"}, 0, BadStamp, "medium")>>

UserActivity(user_id, activity_type, timestamp, keywords, query) ==
    [user_id |-> user_id, activity_type |-> activity_type, timestamp |-> timestamp,
     keywords |-> keywords, query |-> query]

(* The feedback the data file holds at start, written by earlier runs of   *)
(* record_feedback: nothing, or one record of some age.                    *)
StoredLogs(t) ==
    {<<>>} \cup
    {<<FeedbackRecord("u1", "c1", "started", Isoformat(t - a))>> : a \in StoredAges}
    \cup {<<FeedbackRecord("u2", "c1", "started", Isoformat(t - 3))>>}

(* The same with timestamps another writer of the file may have left: an   *)
(* ISO timestamp with a UTC offset, or no timestamp.                       *)
AnyStoredLogs(t) ==
    StoredLogs(t) \cup
    {<<FeedbackRecord("u1", "c1", "started", c)>> :
        c \in {Aware(t - a) : a \in StoredAges} \cup {BadStamp}}

Init ==
    /\ now \in StartTimes
    /\ users = [u \in StoredUsers |-> DefaultUser]
    /\ feedback \in StoredLogs(now)
    /\ queue = <<>>
    /\ result = NoResult
    /\ enqueued = 0
    /\ delivered = <<>>
    /\ cleared = {}
    /\ candidates = StoredCandidates(now)
    /\ user_activity = <<>>
    /\ cf_cache = <<>>
    /\ num_documents = 0
    /\ document_frequencies = <<>>

InitAnyStore ==
    /\ now \in StartTimes
    /\ \E p \in {NoStamp, BadStamp, Aware(now + 1)} :
          users = [u \in StoredUsers |-> [DefaultUser EXCEPT !.paused_until = p]]
    /\ feedback \in AnyStoredLogs(now)
    /\ queue = <<>>
    /\ result = NoResult
    /\ enqueued = 0
    /\ delivered = <<>>
    /\ cleared = {}
    /\ candidates = StoredCandidates(now)
    /\ user_activity = <<>>
    /\ cf_cache = <<>>
    /\ num_documents = 0
    /\ document_frequencies = <<>>

(* The engine over a store with one user, no feedback and no activity. *)
InitEngine ==
    /\ now = 80
    /\ users = [u \in StoredUsers |->
                  [DefaultUser EXCEPT !.topics_of_interest = {"python", "ml", "ai"}]]
    /\ feedback = <<>>
    /\ queue = <<>>
    /\ result = NoResult
    /\ enqueued = 0
    /\ delivered = <<>>
    /\ cleared = {}
    /\ candidates = StoredCandidates(now)
    /\ user_activity = <<>>
    /\ cf_cache = <<>>
    /\ num_documents = 0
    /\ document_frequencies = <<>>

InitQueue ==
    /\ now = 80
    /\ users = [u \in StoredUsers |-> DefaultUser]
    /\ feedback = <<>>
    /\ queue = <<>>
    /\ result = NoResult
    /\ enqueued = 0
    /\ delivered = <<>>
    /\ cleared = {}
    /\ candidates = StoredCandidates(now)
    /\ user_activity = <<>>
    /\ cf_cache = <<>>
    /\ num_documents = 0
    /\ document_frequencies = <<>>

---------------------------------------------------------------------------
(* Operations.  Calls are synchronous and one at a time (the service is   *)
(* single-threaded): a call starts when the previous one has returned.     *)

(* The clock may run on while the process is within MaxElapse hours of a   *)
(* start time.                                                             *)
CanTick == \E s \in StartTimes : s <= now /\ now < s + MaxElapse

Tick ==
    /\ result = NoResult
    /\ CanTick
    /\ now' = now + 1
    /\ UNCHANGED <<users, feedback, queue, result, enqueued, delivered, cleared, engine, index>>

(* POST /api/snooze *)
snooze_notifications ==
    \E user_id \in UserIds, hours \in SnoozeHours :
        /\ result = NoResult
        /\ users' = IF user_id \in DOMAIN users
                    THEN [users EXCEPT ![user_id].paused_until = Isoformat(now + hours)]
                    ELSE users
        /\ UNCHANGED <<now, feedback, queue, result, enqueued, delivered, cleared, engine, index>>

(* DELETE /api/snooze/{user_id} *)
cancel_snooze ==
    \E user_id \in UserIds :
        /\ result = NoResult
        /\ users' = IF user_id \in DOMAIN users
                    THEN [users EXCEPT ![user_id].paused_until = NoStamp]
                    ELSE users
        /\ UNCHANGED <<now, feedback, queue, result, enqueued, delivered, cleared, engine, index>>

(* DataStore.update_user_preferences *)
update_user_preferences ==
    \E user_id \in DOMAIN users, w \in Windows, f \in Frequencies :
        /\ result = NoResult
        /\ users' = [users EXCEPT ![user_id].preferred_hour_start = w[1],
                                  ![user_id].preferred_hour_end = w[2],
                                  ![user_id].frequency = f]
        /\ UNCHANGED <<now, feedback, queue, result, enqueued, delivered, cleared, engine, index>>

(* POST /api/feedback -> DataStore.record_feedback, created_at = now: the *)
(* record is appended and the candidate's engagement score updated.        *)
record_feedback_of(user_id, candidate_id, action) ==
    /\ result = NoResult
    /\ feedback' = Append(feedback,
                          FeedbackRecord(user_id, candidate_id, action, Isoformat(now)))
    /\ candidates' = IF score_deltas(action) # 0
                     THEN update_candidate_score(candidates, candidate_id,
                                                 score_deltas(action))
                     ELSE candidates
    /\ UNCHANGED <<now, users, queue, result, history, user_activity, cf_cache, index>>

(* A user starts the conversation on candidate c1. *)
record_feedback ==
    \E user_id \in FeedbackUsers :
        /\ Len(feedback) < MaxFeedback
        /\ record_feedback_of(user_id, "c1", "started")

(* Any user gives any feedback on a candidate. *)
record_any_feedback ==
    \E user_id \in UserIds, candidate_id \in FeedbackCandidates,
       action \in FeedbackActions :
        /\ Len(feedback) < MaxRatings
        /\ record_feedback_of(user_id, candidate_id, action)

(* Any user gives feedback of any of the enumerated actions on any        *)
(* candidate id.                                                           *)
record_feedback_on_store ==
    \E user_id \in UserIds, candidate_id \in RequestedCandidates,
       action \in AllFeedbackActions :
        /\ Len(feedback) < MaxFeedback
        /\ record_feedback_of(user_id, candidate_id, action)

(* POST /api/user -> DataStore.create_user *)
create_user ==
    \E user_id \in UserIds \ DOMAIN users, topics_of_interest \in InterestSets :
        /\ result = NoResult
        /\ users' = [u \in DOMAIN users \cup {user_id} |->
                        IF u = user_id
                        THEN [DefaultUser EXCEPT !.topics_of_interest = topics_of_interest]
                        ELSE users[u]]
        /\ UNCHANGED <<now, feedback, queue, result, history, engine, index>>

(* POST /api/activity -> DataStore.add_user_activity: a search. *)
add_user_activity ==
    \E user_id \in UserIds :
        /\ result = NoResult
        /\ Len(user_activity) < MaxActivity
        /\ user_activity' = Append(user_activity,
                                   UserActivity(user_id, "search", Isoformat(now),
                                                {"python"}, <<"ML", "AI">>))
        /\ UNCHANGED <<now, users, feedback, queue, result, history, candidates, cf_cache, index>>

(* One call of should_trigger.  The clock may pass into the next hour      *)
(* before any one of the five reads the evaluation makes (k = 0: it does   *)
(* not).                                                                   *)
call_should_trigger ==
    \E user_id \in DOMAIN users, recommendation \in Recommendations,
       context \in Contexts, k \in 0..5 :
        LET clk == [i \in 1..5 |-> IF k # 0 /\ i >= k THEN now + 1 ELSE now]
            r == should_trigger(feedback, users[user_id], user_id,
                                recommendation, context, clk)
        IN  /\ result = NoResult
            /\ k # 0 => CanTick
            /\ result' = [op |-> "should_trigger", user_id |-> user_id,
                          recommendation |-> recommendation, context |-> context,
                          value |-> r]
            /\ now' = Max({now, result'.value.t_pause, result'.value.t_retry,
                            result'.value.t_hour, result'.value.t_freq,
                            result'.value.t_prio})
            /\ UNCHANGED <<users, feedback, queue, enqueued, delivered, cleared, engine, index>>

(* The caller comes back when the retry_after of the result it holds has   *)
(* passed and has the same recommendation evaluated again, the store as it *)
(* was.                                                                    *)
retry_should_trigger ==
    /\ result.op = "should_trigger"
    /\ result.value.has_retry
    /\ \E t \in {now + result.value.retry_after \div 60} :
          /\ now' = t
          /\ result' = [op |-> "should_trigger_again", user_id |-> result.user_id,
                        recommendation |-> result.recommendation,
                        context |-> result.context, first |-> result.value,
                        value |-> should_trigger(feedback, users[result.user_id],
                                                 result.user_id, result.recommendation,
                                                 result.context, [i \in 1..5 |-> t])]
    /\ UNCHANGED <<users, feedback, queue, history, engine, index>>

(* MessageQueue.add *)
add ==
    \E user_id \in UserIds, recommendation \in QueuedRecommendations,
       d \in QueueDelays, priority \in QueuePriorities :
        /\ result = NoResult
        /\ Len(queue) < MaxQueue
        /\ enqueued < MaxAdds
        /\ enqueued' = enqueued + 1
        /\ queue' = queue_add(queue, enqueued + 1, user_id, recommendation,
                              now + d, priority)
        /\ UNCHANGED <<now, users, feedback, result, delivered, cleared, engine, index>>

(* MessageQueue.get_ready *)
get_ready ==
    /\ result = NoResult
    /\ queue' = remaining_of(queue, now)
    /\ result' = [op |-> "get_ready", value |-> ready_of(queue, now)]
    /\ delivered' = delivered \o entries_of(due_of(queue, now))
    /\ UNCHANGED <<now, users, feedback, enqueued, cleared, engine, index>>

(* MessageQueue.clear_user *)
clear_user ==
    \E user_id \in UserIds :
        /\ result = NoResult
        /\ queue' = without_user(queue, user_id)
        /\ result' = [op |-> "clear_user", user_id |-> user_id,
                      value |-> Len(queue) - Len(without_user(queue, user_id))]
        /\ cleared' = cleared \cup
                (Range(entries_of(queue)) \ Range(entries_of(without_user(queue, user_id))))
        /\ UNCHANGED <<now, users, feedback, enqueued, delivered, engine, index>>

(* The user_id arguments of the CF service: the ids of users, "" and, for  *)
(* clear_cache, None.                                                      *)
None == [given |-> FALSE, id |-> ""]
Given(id) == [given |-> TRUE, id |-> id]
CacheUserIds == UserIds \cup {""}

(* CollaborativeFilteringService.get_cf_scores *)
call_get_cf_scores ==
    /\ result = NoResult
    /\ \E user_id \in CacheUserIds :
           \E r \in {get_cf_scores(cf_cache, user_id)} :
               /\ result' = [op |-> "get_cf_scores", user_id |-> user_id,
                             hit |-> user_id \in DOMAIN cf_cache, value |-> r.value]
               /\ cf_cache' = r.cache
               /\ UNCHANGED <<now, users, feedback, queue, history, candidates, user_activity, index>>

(* CollaborativeFilteringService.clear_cache *)
clear_cache ==
    \E user_id \in {None} \cup {Given(u) : u \in CacheUserIds} :
        /\ result = NoResult
        /\ cf_cache' = cache_cleared(cf_cache, user_id)
        /\ result' = [op |-> "clear_cache", user_id |-> user_id]
        /\ UNCHANGED <<now, users, feedback, queue, history, candidates, user_activity, index>>

(* RankingService.rank_candidates over the whole pool. *)
call_rank_candidates ==
    /\ result = NoResult
    /\ \E user_id \in DOMAIN users, context \in EngineContexts :
           \E r \in {rank_candidates(get_all_candidates, users[user_id], user_id, context)} :
               /\ result' = [op |-> "rank_candidates", user_id |-> user_id,
                             context |-> context, candidate_list |-> get_all_candidates,
                             scored |-> r.scored, ranked |-> r.value, value |-> r.value]
               /\ cf_cache' = r.cache
               /\ UNCHANGED <<now, users, feedback, queue, history, candidates, user_activity, index>>

(* RetrievalService.retrieve_candidates *)
call_retrieve_candidates ==
    \E user_id \in DOMAIN users, limit \in Limits :
        /\ result = NoResult
        /\ result' = [op |-> "retrieve_candidates", user_id |-> user_id,
                      limit |-> limit,
                      value |-> retrieve_candidates(users[user_id], user_id, limit)]
        /\ UNCHANGED <<now, users, feedback, queue, history, engine, index>>

(* RecommendationEngine.get_recommendations *)
call_get_recommendations ==
    /\ result = NoResult
    /\ \E user_id \in UserIds, limit \in Limits, context \in EngineContexts :
           \E r \in {get_recommendations(user_id, limit, context)} :
               /\ result' = [op |-> "get_recommendations", user_id |-> user_id,
                             limit |-> limit, context |-> context,
                             retrieved |-> r.retrieved, candidate_list |-> r.candidate_list,
                             scored |-> r.scored, ranked |-> r.ranked, value |-> r.value]
               /\ cf_cache' = r.cache
               /\ UNCHANGED <<now, users, feedback, queue, history, candidates, user_activity, index>>

(* RecommendationEngine.get_proactive_suggestion *)
call_get_proactive_suggestion ==
    /\ result = NoResult
    /\ \E user_id \in UserIds, context \in EngineContexts :
           \E r \in {get_proactive_suggestion(user_id, context)} :
               /\ result' = [op |-> "get_proactive_suggestion", user_id |-> user_id,
                             context |-> context, found |-> r.found,
                             value |-> IF r.found THEN <<r.top>> ELSE <<>>,
                             recommendations |-> r.recommendations.value]
               /\ cf_cache' = r.recommendations.cache
               /\ UNCHANGED <<now, users, feedback, queue, history, candidates, user_activity, index>>

(* The corpora given to build_index and the (id, text) lists searched. *)
Corpora == UNION {[1..n -> Texts] : n \in 0..MaxDocuments}
DocumentLists ==
    {<<>>} \cup
    {[i \in 1..3 |-> [id |-> DocIds[i], text |-> t[i]]] : t \in [1..3 -> Texts]}

(* TextSimilarity.build_index *)
build_index ==
    \E documents \in Corpora :
        /\ result = NoResult
        /\ num_documents' = index_of(documents).num_documents
        /\ document_frequencies' = index_of(documents).document_frequencies
        /\ UNCHANGED <<now, users, feedback, queue, result, history, engine>>

(* TextSimilarity.compute_idf *)
call_compute_idf ==
    \E term \in Terms :
        /\ result = NoResult
        /\ result' = [op |-> "compute_idf", term |-> term, tokens |-> <<term>>,
                      outcome |-> compute_idf(term)]
        /\ UNCHANGED <<now, users, feedback, queue, history, engine, index>>

(* TextSimilarity.compute_tfidf_vector *)
call_compute_tfidf_vector ==
    \E text \in Texts :
        /\ result = NoResult
        /\ result' = [op |-> "compute_tfidf_vector", text |-> text,
                      tokens |-> tokenize(text),
                      outcome |-> compute_tfidf_vector(text)]
        /\ UNCHANGED <<now, users, feedback, queue, history, engine, index>>

(* TextSimilarity.similarity *)
call_similarity ==
    \E text1 \in Texts, text2 \in Texts :
        /\ result = NoResult
        /\ result' = [op |-> "similarity", text1 |-> text1, text2 |-> text2,
                      tokens |-> tokenize(text1) \o tokenize(text2),
                      outcome |-> similarity(text1, text2)]
        /\ UNCHANGED <<now, users, feedback, queue, history, engine, index>>

(* TextSimilarity.find_similar *)
call_find_similar ==
    /\ result = NoResult
    /\ \E query \in Texts, documents \in DocumentLists, top_k \in TopKs :
           \E r \in {find_similar(query, documents, top_k)} :
               /\ result' = [op |-> "find_similar", query |-> query,
                             documents |-> documents, top_k |-> top_k,
                             tokens |-> tokenize(query), outcome |-> r]
               /\ UNCHANGED <<now, users, feedback, queue, history, engine, index>>

(* The caller takes the returned value; the next call can start. *)
Return ==
    /\ result # NoResult
    /\ result' = NoResult
    /\ UNCHANGED <<now, users, feedback, queue, history, engine, index>>

Next ==
    \/ Tick
    \/ snooze_notifications
    \/ cancel_snooze
    \/ update_user_preferences
    \/ record_feedback
    \/ call_should_trigger
    \/ Return

(* The clock is within MaxElapse hours of a start time: a retry takes it   *)
(* past that, and the caller's run is followed no further than the         *)
(* re-evaluation.                                                          *)
WithinHorizon == \E s \in StartTimes : s <= now /\ now <= s + MaxElapse

NextRetry ==
    \/ WithinHorizon /\ Tick
    \/ WithinHorizon /\ snooze_notifications
    \/ WithinHorizon /\ update_user_preferences
    \/ WithinHorizon /\ record_feedback
    \/ WithinHorizon /\ call_should_trigger
    \/ retry_should_trigger
    \/ Return

NextQueue ==
    \/ Tick
    \/ add
    \/ get_ready
    \/ clear_user
    \/ Return

NextCache ==
    \/ record_any_feedback
    \/ create_user
    \/ call_get_cf_scores
    \/ clear_cache
    \/ Return

NextEngine ==
    \/ record_any_feedback
    \/ create_user
    \/ add_user_activity
    \/ call_rank_candidates
    \/ call_retrieve_candidates
    \/ call_get_recommendations
    \/ call_get_proactive_suggestion
    \/ Return

NextStore ==
    \/ record_feedback_on_store

NextSimilarity ==
    \/ build_index
    \/ call_compute_idf
    \/ call_compute_tfidf_vector
    \/ call_similarity
    \/ call_find_similar
    \/ Return

(* The trigger service over a store this program wrote. *)
Spec == Init /\ [][Next]_vars

(* The trigger service over a store whose timestamps anyone wrote. *)
SpecAnyStore == InitAnyStore /\ [][Next]_vars

(* The trigger service with callers that come back after retry_after. *)
SpecRetry == Init /\ [][NextRetry]_vars

(* The message queue. *)
SpecQueue == InitQueue /\ [][NextQueue]_vars

(* The collaborative-filtering cache over a changing store. *)
SpecCache == InitEngine /\ [][NextCache]_vars

(* Retrieval, ranking and the recommendation engine over a changing store. *)
SpecEngine == InitEngine /\ [][NextEngine]_vars

(* The feedback log and the engagement scores it drives. *)
SpecStore == InitEngine /\ [][NextStore]_vars

(* TextSimilarity from its construction on. *)
SpecSimilarity == InitEngine /\ [][NextSimilarity]_vars

---------------------------------------------------------------------------
(* What the claims speak of, read off the returned value and the store.    *)
(* The store does not change between a call and its Return, so after a     *)
(* call of should_trigger the store is the one the call looked at.         *)

Evaluated == result.op = "should_trigger"
TheUser == users[result.user_id]
Value == result.value

(* The pause guard: paused_until is set and after the clock it was tested  *)
(* against.                                                                *)
PauseGuard ==
    /\ TheUser.paused_until.kind = "naive"
    /\ Value.t_pause < TheUser.paused_until.t

(* The window guard: the hour read lies outside the interval [start, end). *)
CurrentHour == Value.t_hour % 24
InsideInterval ==
    /\ TheUser.preferred_hour_start <= CurrentHour
    /\ CurrentHour < TheUser.preferred_hour_end
WindowGuard == Value.t_hour # -1 /\ ~InsideInterval

(* The frequency guard: the user has a feedback record, and the most       *)
(* recent created_at of those records is less than the interval ago.       *)
RecordsOfTheUser == {i \in 1..Len(feedback) : feedback[i].user_id = result.user_id}
MostRecent == Max({feedback[i].created_at.t : i \in RecordsOfTheUser})
HoursElapsed == Value.t_freq - MostRecent
IntervalOfTheUser ==
    CASE TheUser.frequency = "rarely" -> 72
      [] TheUser.frequency = "sometimes" -> 24
      [] TheUser.frequency = "often" -> 4
      [] OTHER -> 24
FrequencyGuard ==
    /\ RecordsOfTheUser # {}
    /\ Value.t_freq # -1
    /\ HoursElapsed < IntervalOfTheUser

ScoreGuard == result.recommendation.score < 500
DeepWorkGuard ==
    result.context.present /\ result.context.current_activity = "deep_work"
ReceptivityGuard ==
    result.context.present /\ result.context.receptivity_score < 300

(* The guards in the order of the claim, and the place in that order of    *)
(* the guard a returned reason belongs to (7: no guard, "All conditions    *)
(* met").                                                                  *)
GuardMatches(j) ==
    CASE j = 1 -> PauseGuard
      [] j = 2 -> WindowGuard
      [] j = 3 -> FrequencyGuard
      [] j = 4 -> ScoreGuard
      [] j = 5 -> DeepWorkGuard
      [] j = 6 -> ReceptivityGuard

GuardOfReason(reason) ==
    CASE reason = "paused" -> 1
      [] reason = "outside_hours" -> 2
      [] reason = "too_soon" -> 3
      [] reason = "low_score" -> 4
      [] reason = "deep_work" -> 5
      [] reason = "low_receptivity" -> 6
      [] OTHER -> 7

OutcomeOfGuard(j) ==
    CASE j \in {1, 3, 6} -> "wait"
      [] j \in {2, 5} -> "queue"
      [] j = 4 -> "skip"

---------------------------------------------------------------------------
(* C1: a result that a guard decided is the outcome of the first guard, in *)
(* the order pause, window, frequency, score, deep_work, receptivity, that *)
(* matches: the deciding guard matches and no earlier guard does.          *)
C1_FirstMatchingGuardDecides ==
    Evaluated =>
        LET k == GuardOfReason(Value.reason)
        IN  k <= 6 =>
                /\ GuardMatches(k)
                /\ Value.decision = OutcomeOfGuard(k)
                /\ \A j \in 1..(k - 1) : ~GuardMatches(j)

(* A paused user, outside the window, too soon after the last feedback,    *)
(* with a low score, in deep work and unreceptive, gets the pause's WAIT.  *)
C1_Witness ==
    /\ Evaluated
    /\ Value.decision = "wait" /\ Value.reason = "paused"
    /\ ~(TheUser.preferred_hour_start <= HourOf(Value.t_pause)
         /\ HourOf(Value.t_pause) < TheUser.preferred_hour_end)
    /\ RecordsOfTheUser # {}
    /\ Value.t_pause - MostRecent < IntervalOfTheUser
    /\ ScoreGuard /\ DeepWorkGuard /\ ReceptivityGuard

(* C2: a TRIGGER result means every guard was clear at that evaluation.    *)
C2_TriggerMeansAllClear ==
    (Evaluated /\ Value.decision = "trigger") =>
        /\ \/ TheUser.paused_until.kind = "none"
           \/ ~(Value.t_pause < TheUser.paused_until.t)
        /\ InsideInterval
        /\ \A i \in RecordsOfTheUser :
              Value.t_freq - feedback[i].created_at.t >= IntervalOfTheUser
        /\ result.recommendation.score >= 500
        /\ result.context.present =>
              /\ result.context.current_activity # "deep_work"
              /\ result.context.receptivity_score >= 300

(* A TRIGGER for a user whose pause has passed and whose last feedback is  *)
(* old enough, with a context supplied.                                    *)
C2_Witness ==
    /\ Evaluated
    /\ Value.decision = "trigger"
    /\ TheUser.paused_until.kind = "naive"
    /\ RecordsOfTheUser # {}
    /\ result.context.present

(* C3: should_trigger returns one of the four decisions and never raises,  *)
(* whatever the store holds.                                               *)
C3_AlwaysReturnsADecision ==
    Evaluated => Value.decision \in {"trigger", "wait", "queue", "skip"}

(* C4: while paused_until is set and in the future the result is the WAIT  *)
(* of the pause with the remaining pause as retry_after, and the pause     *)
(* decides no result otherwise.                                            *)
C4_PausedMeansWait ==
    Evaluated =>
        /\ PauseGuard =>
              /\ Value.decision = "wait"
              /\ Value.reason = "paused"
              /\ Value.has_retry
              /\ Value.retry_after = (TheUser.paused_until.t - Value.t_retry) * 60
        /\ Value.reason = "paused" => PauseGuard

(* A snoozed user whose recommendation would otherwise be triggered. *)
C4_Witness ==
    /\ Evaluated
    /\ Value.reason = "paused"
    /\ Value.retry_after = 60
    /\ result.recommendation.score = 900
    /\ ~result.context.present
    /\ TheUser.preferred_hour_start <= HourOf(Value.t_pause)
    /\ HourOf(Value.t_pause) < TheUser.preferred_hour_end
    /\ RecordsOfTheUser = {}

(* C5: not paused and the hour outside [start, end): QUEUE, with           *)
(* retry_after = ((start - hour) mod 24) hours.                            *)
C5_OutsideWindowQueues ==
    (Evaluated /\ ~PauseGuard /\ ~InsideInterval) =>
        /\ Value.decision = "queue"
        /\ Value.reason = "outside_hours"
        /\ Value.has_retry
        /\ Value.retry_after = ((TheUser.preferred_hour_start - CurrentHour) % 24) * 60

(* Start 9, end 18, hour 20: QUEUE with 13 hours. *)
C5_Witness ==
    /\ Evaluated
    /\ TheUser.preferred_hour_start = 9 /\ TheUser.preferred_hour_end = 18
    /\ Value.t_hour # -1 /\ CurrentHour = 20
    /\ Value.decision = "queue"
    /\ Value.retry_after = 13 * 60

(* C6: with start > end, an hour h with h >= start or h < end is inside    *)
(* the window: no outside-preferred-hours QUEUE at such an hour.           *)
C6_WindowWrapsAroundMidnight ==
    (/\ Evaluated
     /\ Value.t_hour # -1
     /\ TheUser.preferred_hour_start > TheUser.preferred_hour_end
     /\ \/ CurrentHour >= TheUser.preferred_hour_start
        \/ CurrentHour < TheUser.preferred_hour_end)
    => Value.reason # "outside_hours"

(* C7: past the pause and the window, the too-soon WAIT is returned        *)
(* exactly when the user has a feedback record and the most recent one is  *)
(* less than the interval of the frequency ago; retry_after is the rest    *)
(* of the interval.                                                        *)
C7_TooSoonExactly ==
    (Evaluated /\ ~PauseGuard /\ ~WindowGuard) =>
        /\ (Value.decision = "wait" /\ Value.reason = "too_soon") <=> FrequencyGuard
        /\ Value.reason = "too_soon" =>
              /\ Value.has_retry
              /\ Value.retry_after = (IntervalOfTheUser - HoursElapsed) * 60
        /\ RecordsOfTheUser = {} => Value.reason # "too_soon"

(* A too-soon WAIT for a user who also has a record older than the         *)
(* interval, while another user's record is in the log.                    *)
C7_Witness ==
    /\ Evaluated
    /\ Value.reason = "too_soon"
    /\ \E i \in RecordsOfTheUser :
          Value.t_freq - feedback[i].created_at.t >= IntervalOfTheUser

(* C8: past the pause, the window and the frequency guard, a score below   *)
(* 0.5 is skipped with the raw score as priority, whatever the context; a  *)
(* score of 0.5 is not.                                                    *)
C8_LowScoreSkips ==
    (Evaluated /\ ~PauseGuard /\ ~WindowGuard /\ ~FrequencyGuard) =>
        /\ ScoreGuard =>
              /\ Value.decision = "skip"
              /\ Value.reason = "low_score"
              /\ ~Value.has_retry
              /\ Value.priority = result.recommendation.score
        /\ ~ScoreGuard => Value.decision # "skip"

(* A SKIP of a 0.4 recommendation for a user in deep work. *)
C8_Witness ==
    /\ Evaluated
    /\ Value.decision = "skip"
    /\ Value.priority = 400
    /\ DeepWorkGuard

(* C9: past the first four guards: deep_work queues for 1 hour, also with  *)
(* a receptivity below 0.3; otherwise a receptivity below 0.3 waits 30     *)
(* minutes; otherwise, and with no context, TRIGGER.                       *)
C9_ContextGuards ==
    (Evaluated /\ ~PauseGuard /\ ~WindowGuard /\ ~FrequencyGuard /\ ~ScoreGuard) =>
        IF DeepWorkGuard
        THEN /\ Value.decision = "queue" /\ Value.reason = "deep_work"
             /\ Value.has_retry /\ Value.retry_after = 60
        ELSE IF ReceptivityGuard
        THEN /\ Value.decision = "wait" /\ Value.reason = "low_receptivity"
             /\ Value.has_retry /\ Value.retry_after = 30
        ELSE /\ Value.decision = "trigger"
             /\ ~Value.has_retry

(* Deep work with a receptivity of 0.2: the 1-hour QUEUE. *)
C9_Witness ==
    /\ Evaluated
    /\ Value.decision = "queue" /\ Value.retry_after = 60
    /\ DeepWorkGuard /\ ReceptivityGuard

(* C10: the queue is sorted by deliver_after ascending and, among equal    *)
(* deliver_after, by priority descending.                                  *)
C10_QueueSorted ==
    \A i, j \in 1..Len(queue) :
        i < j =>
            \/ queue[i].deliver_after < queue[j].deliver_after
            \/ /\ queue[i].deliver_after = queue[j].deliver_after
               /\ queue[i].priority >= queue[j].priority

(* After a get_ready that delivered something, two entries with the same   *)
(* deliver_after and different priorities are left.                        *)
C10_Witness ==
    /\ result.op = "get_ready" /\ result.value # <<>>
    /\ Len(queue) = 2
    /\ queue[1].deliver_after = queue[2].deliver_after
    /\ queue[1].priority > queue[2].priority

(* Where in a list the tuple with identity e stands. *)
PositionOf(q, e) == CHOOSE i \in 1..Len(q) : q[i].entry = e

GetReadyStep == result.op = "none" /\ result'.op = "get_ready"
ClearUserStep == result.op = "none" /\ result'.op = "clear_user"

(* The entries the last get_ready call returned. *)
LastDelivery(before, after) == SubSeq(after, Len(before) + 1, Len(after))

(* C11: get_ready returns exactly the entries whose deliver_after is at or *)
(* before the current time, removes exactly those and leaves every other   *)
(* entry in place; no entry is returned by two get_ready calls, and no     *)
(* returned entry is still queued.                                         *)
C11_GetReadyDeliversAtMostOnce ==
    /\ [](/\ \A i, j \in 1..Len(delivered) : i # j => delivered[i] # delivered[j]
          /\ \A i \in 1..Len(delivered), j \in 1..Len(queue) :
                delivered[i] # queue[j].entry)
    /\ [][GetReadyStep =>
            LET due == {i \in 1..Len(queue) : queue[i].deliver_after <= now}
                returned == LastDelivery(delivered, delivered')
            IN  /\ Range(returned) = {queue[i].entry : i \in due}
                /\ Len(returned) = Cardinality(due)
                /\ Len(result'.value) = Len(returned)
                /\ \A k \in 1..Len(returned) :
                      LET e == queue[PositionOf(queue, returned[k])]
                      IN  result'.value[k] =
                            [user_id |-> e.user_id, recommendation |-> e.recommendation]
                /\ Range(queue') = {queue[i] : i \in (1..Len(queue)) \ due}
                /\ Len(queue') = Len(queue) - Cardinality(due)
                /\ \A i, j \in 1..Len(queue') :
                      i < j => PositionOf(queue, queue'[i].entry)
                                 < PositionOf(queue, queue'[j].entry)]_vars

(* A second get_ready call returns an entry while another entry, not yet   *)
(* due, stays queued.                                                      *)
C11_Witness ==
    /\ result.op = "get_ready" /\ Len(result.value) >= 1
    /\ Len(delivered) > Len(result.value)
    /\ queue # <<>>
    /\ \A i \in 1..Len(queue) : queue[i].deliver_after > now

(* C12: clear_user(u) removes every entry of u, returns how many it        *)
(* removed, keeps the entries of every other user in their order, and      *)
(* leaves get_user_queue(u) empty.                                         *)
C12_ClearUserRemovesOnlyThatUser ==
    [][ClearUserStep =>
        LET u == result'.user_id
            mine == {i \in 1..Len(queue) : queue[i].user_id = u}
        IN  /\ \A i \in 1..Len(queue') : queue'[i].user_id # u
            /\ result'.value = Cardinality(mine)
            /\ Range(queue') = {queue[i] : i \in (1..Len(queue)) \ mine}
            /\ Len(queue') = Len(queue) - Cardinality(mine)
            /\ \A i, j \in 1..Len(queue') :
                  i < j => PositionOf(queue, queue'[i].entry)
                             < PositionOf(queue, queue'[j].entry)
            /\ get_user_queue(queue', u) = <<>>]_vars

(* clear_user removed the entry of one user and left two entries of the   *)
(* other user, which the sort had put in the reverse of their add order.   *)
C12_Witness ==
    /\ result.op = "clear_user" /\ result.value = 1
    /\ Len(queue) = 2
    /\ \A i \in 1..Len(queue) : queue[i].user_id # result.user_id
    /\ queue[1].entry > queue[2].entry

GetCfScoresStep == result.op = "none" /\ result'.op = "get_cf_scores"
ClearCacheStep == result.op = "none" /\ result'.op = "clear_cache"

(* The cached mapping of user v is the same after the step. *)
StaysCached(v) == v \in DOMAIN cf_cache' /\ cf_cache'[v] = cf_cache[v]

(* C13: get_cf_scores(u) returns the cached mapping of u while there is    *)
(* one, whatever was recorded since, and otherwise computes it from the    *)
(* current store and caches it; only clear_cache removes a cached mapping: *)
(* clear_cache() all of them, clear_cache(u) that of u and of no other     *)
(* user.                                                                   *)
C13_MemoizedUntilCleared ==
    [][/\ GetCfScoresStep =>
            LET u == result'.user_id
            IN  /\ u \in DOMAIN cf_cache => result'.value = cf_cache[u]
                /\ u \notin DOMAIN cf_cache => result'.value = compute_cf_scores(u)
                /\ u \in DOMAIN cf_cache' /\ cf_cache'[u] = result'.value
       /\ ClearCacheStep =>
            LET u == result'.user_id
            IN  IF u = None
                THEN cf_cache' = <<>>
                ELSE /\ u.id \notin DOMAIN cf_cache'
                     /\ \A v \in DOMAIN cf_cache \ {u.id} : StaysCached(v)
       /\ ~ClearCacheStep => \A v \in DOMAIN cf_cache : StaysCached(v)]_vars

(* C14: every value of the mapping get_cf_scores returns lies in [0, 1]. *)
C14_CfScoresWithinUnitInterval ==
    result.op = "get_cf_scores" =>
        \A c \in DOMAIN result.value : 0 <= result.value[c] /\ result.value[c] <= One

(* A ranking has been made: result.candidate_list was ranked, result.scored *)
(* is the list the diversity pass was given and result.ranked the list it  *)
(* gave back.                                                              *)
Ranked == result.op \in {"rank_candidates", "get_recommendations"}

(* Where candidate c stands in a list of scored candidates. *)
PlacesOf(list, c) == {k \in 1..Len(list) : list[k].candidate = c}
FinalScore(c) == result.ranked[CHOOSE k \in PlacesOf(result.ranked, c) : TRUE].score

(* The category of the k-th candidate of the list was seen before it. *)
Repeated(list, k) ==
    \E j \in 1..(k - 1) : list[j].candidate.category = list[k].candidate.category

(* C15: the ranked list holds each input candidate exactly once and is in  *)
(* descending order of final score.                                        *)
C15_RankingIsASortedPermutation ==
    Ranked =>
        /\ Len(result.ranked) = Len(result.candidate_list)
        /\ \A i \in 1..Len(result.candidate_list) :
              Cardinality(PlacesOf(result.ranked, result.candidate_list[i])) = 1
        /\ \A i, j \in 1..Len(result.ranked) :
              i < j => result.ranked[i].score >= result.ranked[j].score

(* A ranking of four candidates in which the penalty moved a repeated      *)
(* candidate below a candidate it stood above before the diversity pass.   *)
C15_Witness ==
    /\ Ranked /\ Len(result.ranked) = 4
    /\ \E k \in 1..3 :
          /\ Repeated(result.scored, k)
          /\ result.scored[k].score > result.scored[k + 1].score
          /\ FinalScore(result.scored[k].candidate)
                < FinalScore(result.scored[k + 1].candidate)

(* C16: the first candidate of each category in the list sorted by         *)
(* pre-penalty score keeps its score; every later candidate of a category  *)
(* already seen ends with 0.8 times its pre-penalty score, once.           *)
C16_PenaltyOncePerRepeatedCandidate ==
    Ranked =>
        \A k \in 1..Len(result.scored) :
            LET before == result.scored[k].score
                after == FinalScore(result.scored[k].candidate)
            IN  IF Repeated(result.scored, k)
                THEN after = (before * 8) \div 10
                ELSE after = before

(* The third candidate of one category, with a positive score, got the     *)
(* penalty.                                                                *)
C16_Witness ==
    /\ Ranked
    /\ \E k \in 1..Len(result.scored) :
          /\ Cardinality({j \in 1..(k - 1) :
                 result.scored[j].candidate.category
                    = result.scored[k].candidate.category}) = 2
          /\ result.scored[k].score > 0
          /\ FinalScore(result.scored[k].candidate) < result.scored[k].score

(* C17: every score rank_candidates assigns lies in [0, 1]. *)
C17_ScoresWithinUnitInterval ==
    Ranked =>
        /\ \A k \in 1..Len(result.scored) :
              0 <= result.scored[k].score /\ result.scored[k].score <= One
        /\ \A k \in 1..Len(result.ranked) :
              0 <= result.ranked[k].score /\ result.ranked[k].score <= One

(* The keywords of the activities recorded for a user. *)
ActivityKeywords(user_id) ==
    UNION {user_activity[i].keywords
             \cup {lower(user_activity[i].query[j]) : j \in 1..Len(user_activity[i].query)} :
           i \in {k \in 1..Len(user_activity) : user_activity[k].user_id = user_id}}

(* The candidates a user has a feedback record for. *)
Shown(user_id) ==
    {feedback[i].candidate_id : i \in {k \in 1..Len(feedback) : feedback[k].user_id = user_id}}

(* C18: retrieve_candidates(user, limit) returns at most limit candidates, *)
(* none of them with a feedback record of that user, each with a keyword   *)
(* among the user's interests or activity keywords.                        *)
C18_RetrievalFiltersShown ==
    result.op = "retrieve_candidates" =>
        /\ Len(result.value) <= result.limit
        /\ \A k \in 1..Len(result.value) :
              /\ result.value[k].id \notin Shown(result.user_id)
              /\ result.value[k].keywords
                    \cap (users[result.user_id].topics_of_interest
                            \cup ActivityKeywords(result.user_id)) # {}

(* Retrieval with limit 1 returned a candidate that matches only through   *)
(* the words of a search query, in place of a candidate that stands before *)
(* it in the pool with the same engagement score, matches as well and was  *)
(* shown to the user.                                                      *)
C18_Witness ==
    /\ result.op = "retrieve_candidates" /\ result.limit = 1
    /\ Len(result.value) = 1
    /\ result.value[1].keywords \cap users[result.user_id].topics_of_interest = {}
    /\ \E i \in 1..Len(candidates) :
          /\ candidates[i].id \in Shown(result.user_id)
          /\ candidates[i].keywords \cap users[result.user_id].topics_of_interest # {}
          /\ candidates[i].engagement_score = result.value[1].engagement_score
          /\ \E j \in (i + 1)..Len(candidates) : candidates[j] = result.value[1]

GetRecommendationsStep == result.op = "none" /\ result'.op = "get_recommendations"

(* C19: get_recommendations returns the first limit candidates of the      *)
(* ranking of what retrieval gave, or of the first 3 * limit candidates of *)
(* the pool when retrieval gave nothing; for a user_id with no stored user *)
(* it does so with the interest "general" and stores no user.              *)
C19_UnknownUserGetsDefaults ==
    [][GetRecommendationsStep =>
        LET r == result'
        IN  /\ Len(r.value) <= r.limit
            /\ Len(r.value) = r.limit \/ Len(r.value) = Len(r.ranked)
            /\ \A k \in 1..Len(r.value) : r.value[k] = r.ranked[k]
            /\ Len(r.retrieved) <= 5 * r.limit
            /\ r.retrieved # <<>> => r.candidate_list = r.retrieved
            /\ r.retrieved = <<>> =>
                  /\ Len(r.candidate_list) = min(3 * r.limit, Len(candidates))
                  /\ \A k \in 1..Len(r.candidate_list) :
                        r.candidate_list[k] = candidates[k]
            /\ Len(r.ranked) = Len(r.candidate_list)
            /\ r.user_id \notin DOMAIN users =>
                  /\ users' = users
                  /\ \A k \in 1..Len(r.retrieved) :
                        r.retrieved[k].keywords
                          \cap ({"general"} \cup ActivityKeywords(r.user_id)) # {}]_vars

(* For a user_id with no stored user and no activity, retrieval gave       *)
(* nothing, the first three of the four candidates of the pool were ranked *)
(* and one was returned.                                                   *)
C19_Witness ==
    /\ result.op = "get_recommendations" /\ result.user_id \notin DOMAIN users
    /\ result.limit = 1 /\ result.retrieved = <<>>
    /\ Len(result.candidate_list) = 3 /\ Len(candidates) = 4
    /\ Len(result.value) = 1

(* C20: get_proactive_suggestion returns the top recommendation only when  *)
(* its score is strictly above 0.5, and nothing when the score is 0.5 or   *)
(* less or there is no recommendation.                                     *)
C20_SuggestionOnlyAboveThreshold ==
    result.op = "get_proactive_suggestion" =>
        /\ result.found =>
              /\ result.recommendations # <<>>
              /\ result.value = <<result.recommendations[1]>>
              /\ result.value[1].score > QualityThreshold
        /\ result.recommendations = <<>> => ~result.found
        /\ (result.recommendations # <<>>
              /\ result.recommendations[1].score <= QualityThreshold) => ~result.found

---------------------------------------------------------------------------
(* The delta the table gives an action, in tenths. *)
TableDelta(action) ==
    CASE action = "started" -> 10
      [] action = "replied" -> 5
      [] action = "dismissed" -> -3
      [] action = "ignored" -> -1
      [] action = "dont_show_like_this" -> -10

RecordFeedbackStep == feedback' # feedback

(* The deltas of the records of the log that reference candidate id. *)
DeltasOf(id) ==
    LET mine == SelectSeq(feedback, LAMBDA f : f.candidate_id = id)
    IN  [i \in 1..Len(mine) |-> TableDelta(mine[i].action)]

(* C21: a record_feedback call with one of the five actions appends        *)
(* exactly one record to the log and leaves the earlier records as they    *)
(* were; it changes the engagement_score of the referenced candidate by    *)
(* the table's delta and changes no other candidate; so every candidate's  *)
(* engagement_score is always its initial value plus the sum of the deltas *)
(* of the records that reference it.                                       *)
C21_FeedbackDrivesEngagement ==
    /\ [](\A i \in 1..Len(candidates) :
            candidates[i].engagement_score =
                StoredCandidates(now)[i].engagement_score
                    + sum(DeltasOf(candidates[i].id)))
    /\ [][RecordFeedbackStep =>
            /\ Len(feedback') = Len(feedback) + 1
            /\ SubSeq(feedback', 1, Len(feedback)) = feedback
            /\ LET f == feedback'[Len(feedback')]
               IN  /\ f.action \in AllFeedbackActions
                   /\ Len(candidates') = Len(candidates)
                   /\ \A i \in 1..Len(candidates) :
                         candidates'[i] =
                            IF candidates[i].id = f.candidate_id
                            THEN [candidates[i] EXCEPT
                                    !.engagement_score = @ + TableDelta(f.action)]
                            ELSE candidates[i]]_vars

(* Two records on c3, a dismissal and a reply, have moved its score from   *)
(* 1.0 to 1.2, and the other candidates are where they started.            *)
C21_Witness ==
    /\ Len(feedback) = 2
    /\ feedback[1].candidate_id = "c3" /\ feedback[1].action = "dismissed"
    /\ feedback[2].candidate_id = "c3" /\ feedback[2].action = "replied"
    /\ candidates[3].engagement_score = 12
    /\ \A i \in {1, 2, 4} : candidates[i].engagement_score = 0

---------------------------------------------------------------------------
SimilarityCalls == {"compute_idf", "compute_tfidf_vector", "similarity", "find_similar"}

(* C22: on a TextSimilarity with no documents indexed (build_index never   *)
(* called, or called with an empty corpus), compute_idf on any term and    *)
(* compute_tfidf_vector, similarity and find_similar on a text that yields *)
(* at least one token return a value and raise no error.                   *)
C22_EmptyIndexIsNoError ==
    /\ result.op \in SimilarityCalls
    /\ num_documents = 0
    /\ result.tokens # <<>>
    => result.outcome.ok

---------------------------------------------------------------------------
Searched == result.op = "find_similar" /\ result.outcome.ok

(* The place of the document of that id in the list searched, and the      *)
(* similarity of the query to the document at a place.                     *)
PlaceOf(id) == CHOOSE i \in 1..Len(result.documents) : result.documents[i].id = id
ScoreAt(i) == similarity(result.query, result.documents[i].text).value

(* C23: find_similar returns at most top_k (id, score) pairs, each the     *)
(* score of its document and strictly positive, in descending order of     *)
(* score, documents of equal score in the order they were given, and no    *)
(* document left out has a higher score than a returned one.               *)
C23_FindSimilarReturnsTheTop ==
    Searched =>
        LET found == result.outcome.value
        IN  /\ Len(found) <= result.top_k
            /\ \A k \in 1..Len(found) :
                  /\ found[k].id \in {result.documents[i].id : i \in 1..Len(result.documents)}
                  /\ found[k].score = ScoreAt(PlaceOf(found[k].id))
                  /\ found[k].score > 0
            /\ \A j, k \in 1..Len(found) :
                  j < k => /\ found[j].score >= found[k].score
                           /\ found[j].score = found[k].score
                                => PlaceOf(found[j].id) < PlaceOf(found[k].id)
            /\ \A i \in 1..Len(result.documents) :
                  result.documents[i].id \notin {found[k].id : k \in 1..Len(found)}
                  => \A k \in 1..Len(found) : ScoreAt(i) <= found[k].score

(* A search for the top two of three matching documents: the second and    *)
(* the third tie and are returned in that order, the first scores lower    *)
(* and is left out.                                                        *)
C23_Witness ==
    /\ Searched
    /\ result.top_k = 2
    /\ Len(result.documents) = 3
    /\ Len(result.outcome.value) = 2
    /\ result.outcome.value[1].id = "d2"
    /\ result.outcome.value[2].id = "d3"
    /\ result.outcome.value[1].score = result.outcome.value[2].score
    /\ ScoreAt(1) > 0
    /\ ScoreAt(1) < result.outcome.value[1].score

---------------------------------------------------------------------------
RankedByTheService == result.op = "rank_candidates"

(* The components of a candidate's score in the call that has returned:    *)
(* the CF scores it used are the ones it left in the cache.                *)
PartsOf(c) ==
    score_parts(c, users[result.user_id], get_user_activity(result.user_id, 20),
                result.context, cf_cache[result.user_id])

HasSignal(item, types, weight) ==
    \E k \in 1..Len(item.signals) :
        item.signals[k].type \in types /\ item.signals[k].weight = weight

HasSignalOfType(item, type) ==
    \E k \in 1..Len(item.signals) : item.signals[k].type = type

(* The signal types of the components other than engagement. *)
OtherSignalTypes ==
    {"match", "reading_history", "search_history", "similar_users", "trending", "timing"}

HasSignalBeside(item, types, weight) ==
    \E k \in 1..Len(item.signals) :
        item.signals[k].type \notin types /\ item.signals[k].weight = weight

(* C24: for every candidate rank_candidates scores, a non-zero interest,   *)
(* activity or engagement contribution has a signal of that weight in the  *)
(* candidate's signal list; the CF signal is there only when its           *)
(* contribution is above 0.05, the trending signal only when the candidate *)
(* is less than 3 days old, the timing signal only when the receptivity is *)
(* above 0.7.                                                              *)
C24_SignalsCarryTheContributions ==
    RankedByTheService =>
        \A k \in 1..Len(result.ranked) :
            LET item == result.ranked[k]
                part == PartsOf(item.candidate)
            IN  /\ part.interest_matches > 0 /\ part.interest_score # 0
                    => HasSignal(item, {"match"}, part.interest_score)
                /\ part.activity_matches > 0 /\ part.activity_score # 0
                    => HasSignal(item, {"reading_history", "search_history"},
                                 part.activity_score)
                /\ part.engagement_score # 0
                    => HasSignalBeside(item, OtherSignalTypes, part.engagement_score)
                /\ HasSignalOfType(item, "similar_users")
                    => part.has_cf /\ part.cf_score > 500
                /\ HasSignalOfType(item, "trending")
                    => part.has_recency /\ part.days_old < 3
                /\ HasSignalOfType(item, "timing")
                    => result.context.present /\ result.context.receptivity_score > 700

---------------------------------------------------------------------------
(* The recommendation's score with the boosts of _compute_priority, at the *)
(* hour the evaluation read for it.                                        *)
Boosted ==
    LET c == result.recommendation.candidate
        byPriority == IF c.priority = "high" THEN 13
                      ELSE IF c.priority = "low" THEN 8 ELSE 10
        byHour == IF c.category = "work" /\ (Value.t_prio % 24) \in 9..17
                  THEN 12 ELSE 10
        product == (((result.recommendation.score * byPriority) \div 10) * byHour) \div 10
    IN  IF product > 1000 THEN 1000 ELSE product

(* C25 as stated: every SKIP and every WAIT result (pause, frequency, low   *)
(* receptivity) has the recommendation's raw score as its priority, and    *)
(* the deep-work QUEUE and the TRIGGER results have the boosted priority.  *)
C25_SkipAndWaitCarryTheRawScore ==
    Evaluated =>
        /\ Value.decision \in {"skip", "wait"}
              => Value.priority = result.recommendation.score
        /\ Value.reason \in {"deep_work", "all_met"} => Value.priority = Boosted

(* C25 amended: a SKIP result has the recommendation's raw score as its    *)
(* priority; the pause WAIT and the frequency WAIT have the default        *)
(* priority 0.5 whatever the score; the low-receptivity WAIT, the          *)
(* deep-work QUEUE and the TRIGGER results have the boosted priority.      *)
C25_PriorityByBranch ==
    Evaluated =>
        /\ Value.decision = "skip" => Value.priority = result.recommendation.score
        /\ Value.decision = "wait" /\ Value.reason \in {"paused", "too_soon"}
              => Value.priority = 500
        /\ Value.decision = "wait" /\ Value.reason \notin {"paused", "too_soon"}
              => Value.reason = "low_receptivity" /\ Value.priority = Boosted
        /\ Value.reason \in {"deep_work", "all_met"} => Value.priority = Boosted

(* A low-receptivity WAIT whose priority is neither the raw score nor 0.5. *)
C25_Witness ==
    /\ Evaluated
    /\ Value.decision = "wait"
    /\ Value.reason = "low_receptivity"
    /\ Value.priority # result.recommendation.score
    /\ Value.priority # 500

---------------------------------------------------------------------------
(* C26: every WAIT and every QUEUE result carries a retry_after that is a  *)
(* strictly positive duration, and every SKIP and TRIGGER result carries   *)
(* none, whatever the preferred hours (start equal to end included) and    *)
(* also when the clock advances between the reads of one evaluation.       *)
C26_RetryAfterIsPositive ==
    Evaluated =>
        /\ Value.decision \in {"wait", "queue"}
              => Value.has_retry /\ Value.retry_after > 0
        /\ Value.decision \in {"skip", "trigger"} => ~Value.has_retry

---------------------------------------------------------------------------
EvaluatedAgain == result.op = "should_trigger_again"

(* C27: when an evaluation is stopped by the pause, the preferred-hours or *)
(* the frequency guard and gives retry_after d, the evaluation made d      *)
(* later, the user's preferences and the feedback log unchanged, is not    *)
(* stopped by that same guard again.                                       *)
C27_RetryMakesProgress ==
    /\ EvaluatedAgain
    /\ result.first.reason \in {"paused", "outside_hours", "too_soon"}
    => result.value.reason # result.first.reason

---------------------------------------------------------------------------
(* The first candidate of a category in the list sorted by pre-penalty     *)
(* score: the one the diversity pass leaves unpenalized.                   *)
FirstOfCategory(list, k) ==
    list[CHOOSE j \in 1..k :
            /\ list[j].candidate.category = list[k].candidate.category
            /\ ~Repeated(list, j)].candidate

PlaceInRanking(c) == CHOOSE k \in PlacesOf(result.ranked, c) : TRUE

(* C28: the diversity pass leaves no candidate with a score above its      *)
(* pre-penalty score, and no category-repeated candidate is ranked above   *)
(* the first candidate of its own category, negative scores included.      *)
C28_DiversityNeverRaisesAScore ==
    Ranked =>
        \A k \in 1..Len(result.scored) :
            /\ FinalScore(result.scored[k].candidate) <= result.scored[k].score
            /\ Repeated(result.scored, k)
                  => PlaceInRanking(FirstOfCategory(result.scored, k))
                        < PlaceInRanking(result.scored[k].candidate)

---------------------------------------------------------------------------
(* The entries add has appended so far, and those still in the queue. *)
Added == 1..enqueued
Queued == Range(entries_of(queue))

(* C29: every entry ever added is in exactly one place: in the queue       *)
(* (once), returned by exactly one get_ready call, or removed by a         *)
(* clear_user call; get_ready returns as many entries as it delivers and   *)
(* clear_user returns how many it removed, so that len(queue) is the       *)
(* number of adds minus the entries returned minus the counts cleared.     *)
C29_QueueConservesEntries ==
    /\ [](/\ Queued \cup Range(delivered) \cup cleared = Added
          /\ Queued \cap Range(delivered) = {}
          /\ Queued \cap cleared = {}
          /\ Range(delivered) \cap cleared = {}
          /\ Cardinality(Queued) = Len(queue)
          /\ Cardinality(Range(delivered)) = Len(delivered)
          /\ Len(queue) = enqueued - Len(delivered) - Cardinality(cleared))
    /\ [][GetReadyStep =>
            /\ Len(result'.value) = Len(delivered') - Len(delivered)
            /\ cleared' = cleared]_vars
    /\ [][ClearUserStep =>
            /\ cleared \subseteq cleared'
            /\ result'.value = Cardinality(cleared') - Cardinality(cleared)
            /\ delivered' = delivered]_vars

(* Four entries were added; a clear_user call has just removed one, after  *)
(* a get_ready call returned another, and an entry is still queued.        *)
C29_Witness ==
    /\ result.op = "clear_user" /\ result.value >= 1
    /\ enqueued >= 3
    /\ delivered # <<>>
    /\ queue # <<>>

---------------------------------------------------------------------------
(* C30: get_recommendations returns no candidate the user already has a    *)
(* feedback record for, whether retrieval gave candidates or gave nothing  *)
(* and the first candidates of the pool were ranked in their place.        *)
C30_NeverRecommendsShown ==
    result.op = "get_recommendations" =>
        \A k \in 1..Len(result.value) :
            result.value[k].candidate.id \notin Shown(result.user_id)

====
